---- MODULE Spec2Model ----
(***************************************************************************)
(* Model of src/main.py: the FastAPI application that answers a question   *)
(* by asking a completion API for the number of the right option and a     *)
(* search API for up to three supporting links, wrapped in a logging       *)
(* middleware.  One event loop runs the coroutines of all requests.        *)
(***************************************************************************)
EXTENDS Integers, Sequences, FiniteSets, TLC

\* Number of requests handled concurrently by the one event loop.
NumRequests == 2
\* Longest list of result items the search API returns in the retriever runs.
MaxItems == 4

\* data.get("items", [])[:3]
TopN == 3
\* return -1 in the except branch of get_correct_answer
Sentinel == -1

Reqs == 1..NumRequests
Ids == {101, 102}

------------------------------------------------------------------------------
\* Python values: an int, or None.
PyInt(n) == [type |-> "int", val |-> n]
PyNone == [type |-> "NoneType", val |-> 0]

\* A whitespace-delimited token is a sequence of characters.
Digits == <<"0", "1", "2", "3", "4", "5", "6", "7", "8", "9">>
IsDigit(c) == \E i \in 1..Len(Digits) : Digits[i] = c
DigitVal(c) == (CHOOSE i \in 1..Len(Digits) : Digits[i] = c) - 1

AllDigits(s) == Len(s) > 0 /\ \A i \in 1..Len(s) : IsDigit(s[i])

\* int(token) succeeds on an optional sign followed by decimal digits.
IntParses(tok) ==
    IF Len(tok) > 0 /\ tok[1] \in {"-", "+"}
    THEN AllDigits(Tail(tok))
    ELSE AllDigits(tok)

RECURSIVE DigitsValue(_)
DigitsValue(s) ==
    IF Len(s) = 0 THEN 0
    ELSE 10 * DigitsValue(SubSeq(s, 1, Len(s) - 1)) + DigitVal(s[Len(s)])

IntOf(tok) ==
    IF tok[1] = "-" THEN 0 - DigitsValue(Tail(tok))
    ELSE IF tok[1] = "+" THEN DigitsValue(Tail(tok))
    ELSE DigitsValue(tok)

\* Outcomes of client.chat.completions.create: the call raises, the response
\* has no usable message content, or it carries a list of choices, each the
\* token list that content.strip().split() yields.
Raised == [kind |-> "raise", choices |-> <<>>]
Malformed == [kind |-> "malformed", choices |-> <<>>]
Completion(choices) == [kind |-> "response", choices |-> choices]
NotCalled == [kind |-> "", choices |-> <<>>]

get_correct_answer(outcome) ==
    IF outcome.kind \in {"raise", "malformed"}
    THEN PyInt(Sentinel)
    ELSE IF Len(outcome.choices) = 0
    THEN PyNone
    ELSE LET tokens == outcome.choices[1] IN
         IF Len(tokens) = 0
         THEN PyInt(Sentinel)
         ELSE LET answer_text == tokens[Len(tokens)] IN
              IF IntParses(answer_text)
              THEN PyInt(IntOf(answer_text))
              ELSE PyInt(Sentinel)

------------------------------------------------------------------------------
\* Search results.  A link is a string; HttpUrl(link) accepts the well-formed.
ValidLinks == {"https://itmo.ru", "https://news.itmo.ru"}
InvalidLinks == {"not a url"}
Links == ValidLinks \cup InvalidLinks
Titles == {"ITMO", "News"}

HttpUrlAccepts(link) == link \in ValidLinks

Item(t, l) == [title |-> t, link |-> l]
SearchFailed(why) == [kind |-> why, items |-> <<>>]
SearchOk(items) == [kind |-> "ok", items |-> items]
SearchFailures == {"transport", "status", "payload"}

\* The fixed opening sentence of a successful search (line 49) and the fixed
\* sentence returned when the search failed (line 58), named by a tag each.
LeadIn == "search results point to the following sources:"
Apology == "could not find relevant information."

\* reasoning: the opening sentence and the "\n- title: link" lines after it.
Reasoning(opening, lines) == [opening |-> opening, lines |-> lines]
Retrieved(sources, reasoning) ==
    [raised |-> FALSE, sources |-> sources, reasoning |-> reasoning]
RetrieverRaised ==
    [raised |-> TRUE, sources |-> <<>>, reasoning |-> Reasoning("", <<>>)]

Min(a, b) == IF a < b THEN a ELSE b
Taken(items) == SubSeq(items, 1, Min(Len(items), TopN))

\* The slice [:3] dropped.
SearchRelevantLinksNoSlice(outcome) ==
    IF outcome.kind # "ok"
       \/ \E i \in 1..Len(outcome.items) : ~HttpUrlAccepts(outcome.items[i].link)
    THEN Retrieved(<<>>, Reasoning(Apology, <<>>))
    ELSE Retrieved([i \in 1..Len(outcome.items) |-> outcome.items[i].link],
                   Reasoning(LeadIn, outcome.items))

\* HttpUrl(link) moved out of the try block: the failure is not swallowed.
SearchRelevantLinksUrlCheckOutsideTry(outcome) ==
    IF outcome.kind # "ok"
    THEN Retrieved(<<>>, Reasoning(Apology, <<>>))
    ELSE LET top == Taken(outcome.items) IN
         IF \E i \in 1..Len(top) : ~HttpUrlAccepts(top[i].link)
         THEN RetrieverRaised
         ELSE Retrieved([i \in 1..Len(top) |-> top[i].link], Reasoning(LeadIn, top))

search_relevant_links(outcome) ==
    IF outcome.kind # "ok"
    THEN Retrieved(<<>>, Reasoning(Apology, <<>>))
    ELSE LET top == Taken(outcome.items) IN
         IF \E i \in 1..Len(top) : ~HttpUrlAccepts(top[i].link)
         THEN Retrieved(<<>>, Reasoning(Apology, <<>>))
         ELSE Retrieved([i \in 1..Len(top) |-> top[i].link], Reasoning(LeadIn, top))

------------------------------------------------------------------------------
\* Inputs of the runs.
SeqsUpTo(S, n) == UNION {[1..k -> S] : k \in 0..n}

Items == {Item(t, l) : t \in Titles, l \in Links}
SearchInputs ==
    {SearchFailed(w) : w \in SearchFailures}
        \cup {SearchOk(s) : s \in SeqsUpTo(Items, MaxItems)}

Good1 == Item("ITMO", "https://itmo.ru")
Good2 == Item("News", "https://news.itmo.ru")
Bad == Item("News", "not a url")

\* Search outcomes met by the request pipeline.
PipelineSearches ==
    { SearchFailed("transport"),
      SearchOk(<<Good1, Good2>>),
      SearchOk(<<Good1, Bad>>),
      SearchOk(<<Good1, Good2, Good1, Bad>>) }

\* Completion outcomes met by the request pipeline: the tokens of the top
\* choice's content, the last of which is parsed.
PipelineCompletions ==
    { Raised,
      Malformed,
      Completion(<<>>),
      Completion(<< << <<"a">>, <<"7">> >> >>),
      Completion(<< << <<"7">>, <<"a">> >> >>),
      Completion(<< << <<"4", "2">> >> >>),
      Completion(<< << <<"-", "7">> >>, << <<"3">> >> >>) }

\* What a logger write does: it returns, or it raises a ValueError (a write
\* to a closed stream) or another exception.
LoggerOutcomes == {"ok", "ValueError", "Exception"}
LoggerErrorText == "logger exception text"
ValidationErrorText == "PredictionResponse validation error"
GenericDetail == "Internal server error"

Routes == {"/api/request", "/other"}
Request(route, id, hasQuery) == [route |-> route, id |-> id, hasQuery |-> hasQuery]
NoRequest == Request("", 0, FALSE)

\* HTTP responses.
Response(status, kind, id, answer, reasoning, sources, detail) ==
    [status |-> status, kind |-> kind, id |-> id, answer |-> answer,
     reasoning |-> reasoning, sources |-> sources, detail |-> detail]
NoResponse == Response(0, "none", 0, PyNone, Reasoning("", <<>>), <<>>, "")
Detail(status, text) ==
    Response(status, "detail", 0, PyNone, Reasoning("", <<>>), <<>>, text)
\* The body the server writes for an exception no handler caught.
PlainServerError ==
    Response(500, "text/plain", 0, PyNone, Reasoning("", <<>>), <<>>,
             "Internal Server Error")

\* PredictionRequest: id and query are required fields.
PredictionRequestValid(body) == body.hasQuery

\* PredictionResponse: answer is an integer, every source a URL.
PredictionResponseValid(id, answer, reasoning, sources) ==
    /\ answer.type = "int"
    /\ \A i \in 1..Len(sources) : HttpUrlAccepts(sources[i])

PredictionResponse(id, answer, reasoning, sources) ==
    Response(200, "PredictionResponse", id, answer, reasoning, sources, "")

------------------------------------------------------------------------------
VARIABLES
    pc,         \* where each request's coroutine stands
    req,        \* the request as received
    completion, \* what the completion API call produced
    answer,     \* predict's local answer
    search,     \* what the search API call produced
    evidence,   \* what search_relevant_links returned
    error_msg,  \* the text of the exception predict caught
    inner,      \* the response call_next handed to the middleware
    resp,       \* the response delivered to the client
    logged,     \* the lines the logger wrote for each request, in order
    blocking,   \* the request whose synchronous call holds the event loop, or 0
    items_in,   \* retriever run: the search outcome given
    result_out  \* retriever run: the value returned

vars == <<pc, req, completion, answer, search, evidence, error_msg, inner, resp,
          logged, blocking, items_in, result_out>>

pipe == <<pc, req, completion, answer, search, evidence, error_msg, inner, resp,
          logged, blocking>>

Unset == [set |-> FALSE, value |-> Retrieved(<<>>, Reasoning("", <<>>))]

InitPipeline ==
    /\ pc = [r \in Reqs |-> "idle"]
    /\ req = [r \in Reqs |-> NoRequest]
    /\ completion = [r \in Reqs |-> NotCalled]
    /\ answer = [r \in Reqs |-> PyNone]
    /\ search = [r \in Reqs |-> SearchFailed("")]
    /\ evidence = [r \in Reqs |-> Retrieved(<<>>, Reasoning("", <<>>))]
    /\ error_msg = [r \in Reqs |-> ""]
    /\ inner = [r \in Reqs |-> NoResponse]
    /\ resp = [r \in Reqs |-> NoResponse]
    /\ logged = [r \in Reqs |-> <<>>]
    /\ blocking = 0

Init ==
    /\ InitPipeline
    /\ items_in = SearchFailed("")
    /\ result_out = Unset

\* A coroutine runs only while no synchronous call holds the event loop.
LoopFree == blocking = 0

\* An exception no handler caught leaves the application: the middleware's
\* await call_next re-raises it and the server answers with its own 500.
Unhandled(r) ==
    /\ resp' = [resp EXCEPT ![r] = PlainServerError]
    /\ pc' = [pc EXCEPT ![r] = "done"]

\* log_requests, lines 72-75: the request reaches the middleware.
Receive(r, route, id, hasQuery) ==
    /\ pc[r] = "idle"
    /\ LoopFree
    /\ req' = [req EXCEPT ![r] = Request(route, id, hasQuery)]
    /\ pc' = [pc EXCEPT ![r] = "mw_entry"]
    /\ UNCHANGED <<completion, answer, search, evidence, error_msg, inner, resp,
                   logged, blocking, items_in, result_out>>

\* log_requests, lines 76-81: the entry line, then call_next.
LogIncoming(r, out) ==
    /\ pc[r] = "mw_entry"
    /\ LoopFree
    /\ IF out = "ok"
       THEN /\ logged' = [logged EXCEPT ![r] = Append(@, "incoming")]
            /\ pc' = [pc EXCEPT ![r] = "call_next"]
            /\ UNCHANGED resp
       ELSE /\ Unhandled(r)
            /\ UNCHANGED logged
    /\ UNCHANGED <<req, completion, answer, search, evidence, error_msg, inner,
                   blocking, items_in, result_out>>

\* The body is handed to predict without the check against PredictionRequest.
DispatchWithoutBodyCheck(r) ==
    /\ pc[r] = "call_next"
    /\ LoopFree
    /\ IF req[r].route # "/api/request"
       THEN /\ inner' = [inner EXCEPT ![r] = Detail(404, "Not Found")]
            /\ pc' = [pc EXCEPT ![r] = "mw_exit"]
       ELSE /\ pc' = [pc EXCEPT ![r] = "h_processing"]
            /\ UNCHANGED inner
    /\ UNCHANGED <<req, completion, answer, search, evidence, error_msg, resp,
                   logged, blocking, items_in, result_out>>

\* Lines 103-104: routing and the check of the body against PredictionRequest.
Dispatch(r) ==
    /\ pc[r] = "call_next"
    /\ LoopFree
    /\ IF req[r].route # "/api/request"
       THEN /\ inner' = [inner EXCEPT ![r] = Detail(404, "Not Found")]
            /\ pc' = [pc EXCEPT ![r] = "mw_exit"]
       ELSE IF ~PredictionRequestValid(req[r])
       THEN /\ inner' = [inner EXCEPT ![r] = Detail(422, "field required")]
            /\ pc' = [pc EXCEPT ![r] = "mw_exit"]
       ELSE /\ pc' = [pc EXCEPT ![r] = "h_processing"]
            /\ UNCHANGED inner
    /\ UNCHANGED <<req, completion, answer, search, evidence, error_msg, resp,
                   logged, blocking, items_in, result_out>>

\* predict, lines 105-107: the first logger write; when it returns the
\* coroutine goes straight into the synchronous completion call.
LogProcessing(r, out) ==
    /\ pc[r] = "h_processing"
    /\ LoopFree
    /\ IF out = "ok"
       THEN /\ logged' = [logged EXCEPT ![r] = Append(@, "processing")]
            /\ pc' = [pc EXCEPT ![r] = "resolving"]
            /\ blocking' = r
            /\ UNCHANGED error_msg
       ELSE /\ error_msg' = [error_msg EXCEPT ![r] = LoggerErrorText]
            /\ pc' = [pc EXCEPT ![r] = IF out = "ValueError" THEN "h_err400"
                                                             ELSE "h_err500"]
            /\ UNCHANGED <<logged, blocking>>
    /\ UNCHANGED <<req, completion, answer, search, evidence, inner, resp,
                   items_in, result_out>>

\* predict, lines 107-108: get_correct_answer returns and the coroutine goes
\* straight into the synchronous search call.
CompletionReturns(r, outcome) ==
    /\ pc[r] = "resolving"
    /\ blocking = r
    /\ completion' = [completion EXCEPT ![r] = outcome]
    /\ answer' = [answer EXCEPT ![r] = get_correct_answer(outcome)]
    /\ pc' = [pc EXCEPT ![r] = "retrieving"]
    /\ UNCHANGED <<req, search, evidence, error_msg, inner, resp, logged,
                   blocking, items_in, result_out>>

\* predict, lines 108-116 and 118-120: search_relevant_links returns, the
\* PredictionResponse is built, and the coroutine awaits the next logger write.
SearchReturns(r, outcome) ==
    /\ pc[r] = "retrieving"
    /\ blocking = r
    /\ search' = [search EXCEPT ![r] = outcome]
    /\ LET found == search_relevant_links(outcome) IN
       /\ evidence' = [evidence EXCEPT ![r] = found]
       /\ IF ~found.raised
             /\ PredictionResponseValid(req[r].id, answer[r], found.reasoning,
                                        found.sources)
          THEN /\ pc' = [pc EXCEPT ![r] = "h_success"]
               /\ UNCHANGED error_msg
          ELSE /\ error_msg' = [error_msg EXCEPT ![r] = ValidationErrorText]
               /\ pc' = [pc EXCEPT ![r] = "h_err400"]
    /\ blocking' = 0
    /\ UNCHANGED <<req, completion, answer, inner, resp, logged, items_in,
                   result_out>>

\* One response object shared by the requests in flight instead of a local.
AssembledFromSharedState(r) ==
    LET others == {s \in Reqs \ {r} : pc[s] # "idle"} IN
    PredictionResponse(IF others = {} THEN req[r].id
                       ELSE req[CHOOSE s \in others : TRUE].id,
                       answer[r], evidence[r].reasoning, evidence[r].sources)

\* The response predict returns.
Assembled(r) ==
    PredictionResponse(req[r].id, answer[r], evidence[r].reasoning,
                       evidence[r].sources)

\* predict, lines 116-117.
LogSuccess(r, out) ==
    /\ pc[r] = "h_success"
    /\ LoopFree
    /\ IF out = "ok"
       THEN /\ logged' = [logged EXCEPT ![r] = Append(@, "success")]
            /\ inner' = [inner EXCEPT ![r] = Assembled(r)]
            /\ pc' = [pc EXCEPT ![r] = "mw_exit"]
            /\ UNCHANGED error_msg
       ELSE /\ error_msg' = [error_msg EXCEPT ![r] = LoggerErrorText]
            /\ pc' = [pc EXCEPT ![r] = IF out = "ValueError" THEN "h_err400"
                                                             ELSE "h_err500"]
            /\ UNCHANGED <<logged, inner>>
    /\ UNCHANGED <<req, completion, answer, search, evidence, resp, blocking,
                   items_in, result_out>>

\* predict, lines 118-121.
LogValidationError(r, out) ==
    /\ pc[r] = "h_err400"
    /\ LoopFree
    /\ IF out = "ok"
       THEN /\ logged' = [logged EXCEPT ![r] = Append(@, "validation_error")]
            /\ inner' = [inner EXCEPT ![r] = Detail(400, error_msg[r])]
            /\ pc' = [pc EXCEPT ![r] = "mw_exit"]
            /\ UNCHANGED resp
       ELSE /\ Unhandled(r)
            /\ UNCHANGED <<logged, inner>>
    /\ UNCHANGED <<req, completion, answer, search, evidence, error_msg,
                   blocking, items_in, result_out>>

\* predict, lines 122-124.
LogInternalError(r, out) ==
    /\ pc[r] = "h_err500"
    /\ LoopFree
    /\ IF out = "ok"
       THEN /\ logged' = [logged EXCEPT ![r] = Append(@, "internal_error")]
            /\ inner' = [inner EXCEPT ![r] = Detail(500, GenericDetail)]
            /\ pc' = [pc EXCEPT ![r] = "mw_exit"]
            /\ UNCHANGED resp
       ELSE /\ Unhandled(r)
            /\ UNCHANGED <<logged, inner>>
    /\ UNCHANGED <<req, completion, answer, search, evidence, error_msg,
                   blocking, items_in, result_out>>

\* log_requests, lines 82-100: the exit line, then the response goes out.
LogCompleted(r, out) ==
    /\ pc[r] = "mw_exit"
    /\ LoopFree
    /\ IF out = "ok"
       THEN /\ logged' = [logged EXCEPT ![r] = Append(@, "completed")]
            /\ resp' = [resp EXCEPT ![r] = inner[r]]
            /\ pc' = [pc EXCEPT ![r] = "done"]
       ELSE /\ Unhandled(r)
            /\ UNCHANGED logged
    /\ UNCHANGED <<req, completion, answer, search, evidence, error_msg, inner,
                   blocking, items_in, result_out>>

\* The steps of request r, its inputs drawn from the given sets.
StepWith(r, ids, completions, searches) ==
    \/ \E route \in Routes, id \in ids, hasQuery \in BOOLEAN :
          Receive(r, route, id, hasQuery)
    \/ \E out \in LoggerOutcomes : LogIncoming(r, out)
    \/ Dispatch(r)
    \/ \E out \in LoggerOutcomes : LogProcessing(r, out)
    \/ \E outcome \in completions : CompletionReturns(r, outcome)
    \/ \E outcome \in searches : SearchReturns(r, outcome)
    \/ \E out \in LoggerOutcomes : LogSuccess(r, out)
    \/ \E out \in LoggerOutcomes : LogValidationError(r, out)
    \/ \E out \in LoggerOutcomes : LogInternalError(r, out)
    \/ \E out \in LoggerOutcomes : LogCompleted(r, out)

Step(r) == StepWith(r, Ids, PipelineCompletions, PipelineSearches)

Next == \E r \in Reqs : Step(r)

Spec == Init /\ [][Next]_vars

------------------------------------------------------------------------------
\* The retriever on its own: every search outcome up to MaxItems items.
InitSearch ==
    /\ InitPipeline
    /\ items_in \in SearchInputs
    /\ result_out = Unset

ApplySearch ==
    /\ ~result_out.set
    /\ result_out' = [set |-> TRUE, value |-> search_relevant_links(items_in)]
    /\ UNCHANGED <<items_in, pipe>>

NextSearch == ApplySearch

SpecSearch == InitSearch /\ [][NextSearch]_vars

\* The pipeline with the requests' ids varied and both upstream calls
\* succeeding.
NextIds ==
    \E r \in Reqs :
        StepWith(r, Ids,
                 {Completion(<< << <<"a">>, <<"7">> >> >>)},
                 {SearchOk(<<Good1, Good2>>)})

SpecIds == Init /\ [][NextIds]_vars

\* The pipeline with the search outcomes that hold an invalid link, under an
\* integer answer and under none.
NextUrls ==
    \E r \in Reqs :
        StepWith(r, {101},
                 {Completion(<< << <<"a">>, <<"7">> >> >>), Completion(<<>>)},
                 {SearchOk(<<Good1, Bad>>), SearchOk(<<Good1, Good2, Good1, Bad>>)})

SpecUrls == Init /\ [][NextUrls]_vars

------------------------------------------------------------------------------
\* Properties.

Done(r) == pc[r] = "done"
Resolved(r) == completion[r].kind # ""
Searched(r) == search[r].kind # ""
\* No logger write raised while request r was handled.
NoLoggerFailure(r) ==
    error_msg[r] # LoggerErrorText /\ resp[r] # PlainServerError
LoggerFailed(r) == ~NoLoggerFailure(r)
Count(seq, x) == Cardinality({i \in 1..Len(seq) : seq[i] = x})
FallbackEvidence == Retrieved(<<>>, Reasoning(Apology, <<>>))

\* The completion call failed to yield an answer: it raised, the response was
\* malformed, the choice list was empty, or the last token is no integer.
ResolutionFailure(outcome) ==
    \/ outcome.kind \in {"raise", "malformed"}
    \/ /\ outcome.kind = "response"
       /\ \/ Len(outcome.choices) = 0
          \/ Len(outcome.choices[1]) = 0
          \/ ~IntParses(outcome.choices[1][Len(outcome.choices[1])])

BadLinkInTopThree(outcome) ==
    /\ outcome.kind = "ok"
    /\ \E i \in 1..Len(outcome.items) :
          i <= 3 /\ outcome.items[i].link \in InvalidLinks

\* C1: every 200 response of POST /api/request carries an answer that is an
\* integer in 1..10 or exactly -1, whatever the completion API returned.
C1_AnswerInRange ==
    \A r \in Reqs :
        resp[r].status = 200 =>
            /\ resp[r].answer.type = "int"
            /\ resp[r].answer.val \in (1..10) \cup {-1}

\* C2: on every resolution failure get_correct_answer returns -1, and the
\* request is answered with status 200 carrying answer -1, never 400 or 500.
C2_ResolutionFailureYieldsSentinel ==
    \A r \in Reqs :
        Resolved(r) /\ ResolutionFailure(completion[r]) =>
            /\ answer[r] = PyInt(-1)
            /\ Done(r) /\ NoLoggerFailure(r) =>
                  resp[r].status = 200 /\ resp[r].answer = PyInt(-1)

\* C3: when the search API call fails, the response is still 200 with empty
\* sources and the apology as reasoning, whatever the resolver returned.
C3_SearchFailureStill200 ==
    \A r \in Reqs :
        Done(r) /\ Searched(r) /\ search[r].kind # "ok" /\ NoLoggerFailure(r) =>
            /\ resp[r].status = 200
            /\ resp[r].sources = <<>>
            /\ resp[r].reasoning = Reasoning(Apology, <<>>)

\* C4: whenever a logger write raises while a request is handled, the client
\* receives 500 with the body {"detail": "Internal server error"}, and the
\* body never holds the exception's text.
C4_LoggerFailureIsGeneric500 ==
    \A r \in Reqs :
        Done(r) /\ LoggerFailed(r) =>
            /\ resp[r] = Detail(500, GenericDetail)
            /\ resp[r].detail # LoggerErrorText

C6_EntryAndExitLogged ==
    \A r \in Reqs :
        Done(r) =>
            /\ Count(logged[r], "incoming") = 1
            /\ Count(logged[r], "completed") = 1
            /\ logged[r][1] = "incoming"
            /\ logged[r][Len(logged[r])] = "completed"

\* C7: when the search succeeds with n items whose links are all valid URLs,
\* search_relevant_links returns the links of the first min(n, 3) items in
\* order and a reasoning of the lead-in followed by exactly those min(n, 3)
\* "title: link" lines; never more than 3 sources, and for n = 0 no source and
\* the lead-in alone.
C7_FirstThreeNoPadding ==
    (/\ result_out.set
     /\ items_in.kind = "ok"
     /\ \A i \in 1..Len(items_in.items) : items_in.items[i].link \in ValidLinks)
    =>
    LET n == Len(items_in.items)
        k == IF n < 3 THEN n ELSE 3
        out == result_out.value
    IN  /\ ~out.raised
        /\ Len(out.sources) = k
        /\ Len(out.sources) <= 3
        /\ \A i \in 1..k : out.sources[i] = items_in.items[i].link
        /\ out.reasoning.opening = LeadIn
        /\ Len(out.reasoning.lines) = k
        /\ \A i \in 1..k : out.reasoning.lines[i] = items_in.items[i]
        /\ n = 0 => out = Retrieved(<<>>, Reasoning(LeadIn, <<>>))

C7_Witness ==
    /\ result_out.set
    /\ items_in.kind = "ok"
    /\ Len(items_in.items) = 4
    /\ \A i \in 1..4 : items_in.items[i].link \in ValidLinks
    /\ items_in.items[1] # items_in.items[2]
    /\ Len(result_out.value.sources) = 3

\* C8 as stated: an invalid link among the first three result items is a hard
\* error: it is not turned into the empty-sources fallback, the request does
\* not end in a 200 response, and an HTTP error status is returned.
C8_InvalidUrlIsHardError ==
    \A r \in Reqs :
        Done(r) /\ Searched(r) /\ BadLinkInTopThree(search[r])
                /\ NoLoggerFailure(r) =>
            /\ evidence[r] # FallbackEvidence
            /\ resp[r].status # 200
            /\ resp[r].status >= 400

\* C8 as amended: an invalid link among the first three result items is
\* swallowed like every other retrieval failure: search_relevant_links returns
\* no sources and the apology, no exception reaches predict, and the request
\* ends in 200 with that fallback whenever the resolver returned an integer
\* and no logger write raised; a 400 is then due to the answer alone.
C8_InvalidUrlSwallowed ==
    \A r \in Reqs :
        Searched(r) /\ BadLinkInTopThree(search[r]) =>
            /\ evidence[r] = FallbackEvidence
            /\ error_msg[r] = ValidationErrorText => answer[r].type # "int"
            /\ Done(r) /\ NoLoggerFailure(r) /\ answer[r].type = "int" =>
                  /\ resp[r].status = 200
                  /\ resp[r].sources = <<>>
                  /\ resp[r].reasoning = Reasoning(Apology, <<>>)

C8_Witness ==
    \E r \in Reqs :
        /\ Done(r) /\ Searched(r) /\ BadLinkInTopThree(search[r])
        /\ Len(search[r].items) = 2
        /\ resp[r].status = 200
        /\ resp[r].sources = <<>>

\* C9: under any interleaving of the requests, every PredictionResponse handed
\* back for a request carries the id of that same request, unchanged.
C9_ResponseIdIsRequestId ==
    \A r \in Reqs :
        /\ inner[r].kind = "PredictionResponse" => inner[r].id = req[r].id
        /\ resp[r].kind = "PredictionResponse" =>
              resp[r].status = 200 /\ resp[r].id = req[r].id

C9_Witness ==
    \E r, s \in Reqs :
        /\ r # s
        /\ req[r].id # req[s].id
        /\ pc[r] = "mw_exit" /\ inner[r].kind = "PredictionResponse"
        /\ inner[r].id = req[r].id
        /\ pc[s] = "h_success"

\* C10: the completion call and the search call are suspension points: while
\* one request waits for either of them, the steps of the other requests can
\* run; within one request the resolution is complete before retrieval begins.
C10_UpstreamCallsSuspend ==
    /\ \A r, s \in Reqs :
          r # s /\ pc[r] \in {"resolving", "retrieving"}
                /\ pc[s] \notin {"idle", "done"} =>
              ENABLED Step(s)
    /\ \A r \in Reqs : pc[r] = "retrieving" => Resolved(r)

====
